---------------------------- MODULE Spec2Model ----------------------------
(***************************************************************************)
(* Maritime unit converter (src/src/App.tsx) and its conversion-history    *)
(* store (src/server.ts).                                                  *)
(*                                                                         *)
(* Numbers.  A JavaScript number is modelled as NaN or as an exact         *)
(* rational [n |-> numerator, d |-> denominator] in lowest terms with      *)
(* d > 0.  The arithmetic is the arithmetic of the source, operation by    *)
(* operation and in the source's order, but it is exact: the rounding of   *)
(* IEEE-754 doubles, the infinities and the negative zero are not          *)
(* modelled.  Statements of the form "equal" are therefore statements      *)
(* about the real-number value of the computation.                         *)
(*                                                                         *)
(* Strings.  The text of the input box is a sequence of one-character      *)
(* strings, so that parseFloat can be modelled by what it does.            *)
(***************************************************************************)
EXTENDS Integers, Sequences, FiniteSets, TLC

\* ------------------------------------------------------------------------
\* Bounds of the model
\* ------------------------------------------------------------------------

\* Longest input text enumerated character by character.
MaxLen == 2

\* Most rows ever inserted into the history table.
MaxInserts == 3

\* Last second of the store's clock.
MaxClock == 1

\* ------------------------------------------------------------------------
\* JavaScript values
\* ------------------------------------------------------------------------

\* Values are records so that any two of them can be compared.
NaN == [nan |-> TRUE]
Null == [null |-> TRUE]
Undefined == [undefined |-> TRUE]
\* Outcome of evaluating `undefined.minKt`: the TypeError a render would throw.
TypeError == [throws |-> "TypeError"]

Abs(x) == IF x < 0 THEN -x ELSE x

RECURSIVE GCD(_, _)
GCD(a, b) == IF b = 0 THEN a ELSE GCD(b, a % b)

\* The rational n/d in lowest terms, d /= 0.
Rat(n, d) ==
    LET g == GCD(Abs(n), Abs(d))
        s == IF d < 0 THEN -1 ELSE 1
    IN  [n |-> (s * n) \div g, d |-> (s * d) \div g]

Int2Num(k) == [n |-> k, d |-> 1]

isNaN(x) == x = NaN

\* a * b.  Factors are cancelled crosswise before multiplying.
Mul(a, b) ==
    IF isNaN(a) \/ isNaN(b) THEN NaN
    ELSE LET g1 == GCD(Abs(a.n), b.d)
             g2 == GCD(Abs(b.n), a.d)
         IN  [n |-> (a.n \div g1) * (b.n \div g2),
              d |-> (a.d \div g2) * (b.d \div g1)]

\* a / b for b /= 0 (no division by zero occurs: a divisor is a truthy
\* factor or a non-zero literal).
Div(a, b) ==
    IF isNaN(a) \/ isNaN(b) THEN NaN
    ELSE Mul(a, Rat(b.d, b.n))

Add(a, b) ==
    IF isNaN(a) \/ isNaN(b) THEN NaN
    ELSE LET g == GCD(a.d, b.d)
         IN  Rat(a.n * (b.d \div g) + b.n * (a.d \div g), (a.d \div g) * b.d)

Neg(a) == IF isNaN(a) THEN NaN ELSE [n |-> -a.n, d |-> a.d]

Sub(a, b) == Add(a, Neg(b))

\* a >= b; every comparison with NaN is false.  The integer parts decide;
\* when they agree the fractional parts are compared on their common
\* denominator.
Geq(a, b) ==
    IF isNaN(a) \/ isNaN(b) THEN FALSE
    ELSE LET g  == GCD(a.d, b.d)
             fa == a.n \div a.d
             fb == b.n \div b.d
         IN  IF fa # fb THEN fa > fb
             ELSE (a.n % a.d) * (b.d \div g) >= (b.n % b.d) * (a.d \div g)

\* a > b
Gt(a, b) == Geq(a, b) /\ a # b

\* Math.floor
MathFloor(a) == IF isNaN(a) THEN NaN ELSE Int2Num(a.n \div a.d)

\* Math.min and Math.max return NaN when an argument is NaN.
MathMin(a, b) ==
    IF isNaN(a) \/ isNaN(b) THEN NaN ELSE IF Geq(a, b) THEN b ELSE a

MathMax(a, b) ==
    IF isNaN(a) \/ isNaN(b) THEN NaN ELSE IF Geq(a, b) THEN a ELSE b

\* ------------------------------------------------------------------------
\* parseFloat
\* ------------------------------------------------------------------------

Digits == {"0", "1", "2", "3", "4", "5", "6", "7", "8", "9"}

DigitVal(c) ==
    CASE c = "0" -> 0 [] c = "1" -> 1 [] c = "2" -> 2 [] c = "3" -> 3
      [] c = "4" -> 4 [] c = "5" -> 5 [] c = "6" -> 6 [] c = "7" -> 7
      [] c = "8" -> 8 [] c = "9" -> 9

RECURSIVE Pow10(_)
Pow10(k) == IF k = 0 THEN 1 ELSE 10 * Pow10(k - 1)

\* First position at or after i that holds no white space.
RECURSIVE SkipWhiteSpace(_, _)
SkipWhiteSpace(s, i) ==
    IF i <= Len(s) /\ s[i] = " " THEN SkipWhiteSpace(s, i + 1) ELSE i

\* First position at or after i that holds no decimal digit.
RECURSIVE DigitsEnd(_, _)
DigitsEnd(s, i) ==
    IF i <= Len(s) /\ s[i] \in Digits THEN DigitsEnd(s, i + 1) ELSE i

\* Value of the decimal digits s[i] .. s[j-1] (0 for none).
RECURSIVE DigitsValue(_, _, _)
DigitsValue(s, i, j) ==
    IF i >= j THEN 0 ELSE 10 * DigitsValue(s, i, j - 1) + DigitVal(s[j - 1])

At(s, i) == IF i >= 1 /\ i <= Len(s) THEN s[i] ELSE ""

\* parseFloat(s): the value of the longest prefix of the text, leading
\* blanks skipped, that is a decimal literal (sign, digits, fraction,
\* exponent), NaN when there is none.  The literal "Infinity" is left out:
\* no input text of the model spells it.
parseFloat(s) ==
    LET i0      == SkipWhiteSpace(s, 1)
        signed  == At(s, i0) \in {"+", "-"}
        i1      == IF signed THEN i0 + 1 ELSE i0
        intEnd  == DigitsEnd(s, i1)
        hasInt  == intEnd > i1
        hasDot  == At(s, intEnd) = "."
        fracEnd == IF hasDot THEN DigitsEnd(s, intEnd + 1) ELSE intEnd
        hasFrac == hasDot /\ fracEnd > intEnd + 1
        mantEnd == IF hasInt THEN fracEnd
                   ELSE IF hasFrac THEN fracEnd ELSE i1
        fracLen == IF hasFrac THEN fracEnd - (intEnd + 1) ELSE 0
        hasE    == At(s, mantEnd) \in {"e", "E"}
        eSigned == hasE /\ At(s, mantEnd + 1) \in {"+", "-"}
        e1      == IF eSigned THEN mantEnd + 2 ELSE mantEnd + 1
        expEnd  == IF hasE THEN DigitsEnd(s, e1) ELSE mantEnd
        hasExp  == hasE /\ expEnd > e1
        expo    == IF hasExp THEN DigitsValue(s, e1, expEnd) ELSE 0
        expNeg  == hasExp /\ At(s, mantEnd + 1) = "-"
        whole   == DigitsValue(s, i1, intEnd)
        frac    == IF hasFrac THEN DigitsValue(s, intEnd + 1, fracEnd) ELSE 0
        mant    == Rat(whole * Pow10(fracLen) + frac, Pow10(fracLen))
        scaled  == IF expNeg THEN Div(mant, Int2Num(Pow10(expo)))
                   ELSE Mul(mant, Int2Num(Pow10(expo)))
    IN  IF ~hasInt /\ ~hasFrac THEN NaN
        ELSE IF At(s, i0) = "-" THEN Neg(scaled) ELSE scaled


\* ------------------------------------------------------------------------
\* Reference data
\* ------------------------------------------------------------------------

Categories == {"length", "speed", "wind", "pressure", "temperature", "weight"}

\* A unit of the registry; a field the source leaves out is Undefined.
Unit(value, factor, offset) ==
    [value |-> value, factor |-> factor, offset |-> offset]

\* A registry whose linear units were entered without their factor.
LinearUnit_NoFactor(value, n, d) == Unit(value, Undefined, Undefined)

LinearUnit(value, n, d) == Unit(value, Rat(n, d), Undefined)

\* The registry, one sequence of units per category.
UnitRegistry ==
    [ length |->
           << LinearUnit("nmi", 1852, 1),
              LinearUnit("ftm", 18288, 10000),
              LinearUnit("m", 1, 1),
              LinearUnit("km", 1000, 1),
              LinearUnit("ft", 3048, 10000),
              LinearUnit("yd", 9144, 10000),
              LinearUnit("mi", 1609344, 1000) >>,
      speed |->
           << LinearUnit("kt", 1852, 1000),
              LinearUnit("ms", 36, 10),
              LinearUnit("kmh", 1, 1),
              LinearUnit("mph", 160934, 100000) >>,
      wind |->
           << Unit("bf", Undefined, Undefined),
              LinearUnit("kt", 1852, 1000),
              LinearUnit("ms", 36, 10),
              LinearUnit("kmh", 1, 1),
              LinearUnit("mph", 160934, 100000) >>,
      pressure |->
           << LinearUnit("hpa", 1, 1),
              LinearUnit("mb", 1, 1),
              LinearUnit("inhg", 338639, 10000),
              LinearUnit("mmhg", 133322, 100000),
              LinearUnit("psi", 689476, 10000) >>,
      weight |->
           << LinearUnit("t", 1000, 1),
              LinearUnit("kg", 1, 1),
              LinearUnit("g", 1, 1000),
              LinearUnit("lb", 453592, 1000000) >>,
      temperature |->
           << Unit("C", Undefined, Int2Num(0)),
              Unit("F", Undefined, Int2Num(32)),
              Unit("K", Undefined, Rat(27315, 100)) >> ]

\* UNITS[category]
UNITS(category) == UnitRegistry[category]

\* minKt of the levels 0 .. 12, in the order of the table.
BeaufortMinKt == << 0, 1, 4, 7, 11, 17, 22, 28, 34, 41, 48, 56, 64 >>

BeaufortDescription ==
    << "Calm", "Light air", "Light breeze", "Gentle breeze",
       "Moderate breeze", "Fresh breeze", "Strong breeze", "Near gale",
       "Gale", "Strong gale", "Storm", "Violent storm", "Hurricane" >>

BeaufortSeaEffect ==
    << "Sea like a mirror.",
       "Ripples with appearance of scales are formed, without foam crests.",
       "Small wavelets still short but more pronounced; crests have a glassy appearance but do not break.",
       "Large wavelets; crests begin to break; foam of glassy appearance. Perhaps scattered white horses.",
       "Small waves becoming longer; fairly frequent white horses.",
       "Moderate waves taking a more pronounced long form; many white horses are formed. Chance of some spray.",
       "Large waves begin to form; the white foam crests are more extensive everywhere. Probably some spray.",
       "Sea heaps up and white foam from breaking waves begins to be blown in streaks along the direction of the wind.",
       "Moderately high waves of greater length; edges of crests break into spindrift. Foam is blown in well-marked streaks.",
       "High waves. Dense streaks of foam along the direction of the wind. Sea begins to roll. Spray may affect visibility.",
       "Very high waves with long overhanging crests. Resulting foam in great patches is blown in dense white streaks.",
       "Exceptionally high waves. Sea is completely covered with long white patches of foam. Visibility affected.",
       "The air is filled with foam and spray. Sea completely white with driving spray; visibility very seriously affected." >>

\* BEAUFORT_SCALE as a sequence; level L is its element L + 1.
BEAUFORT_SCALE ==
    [i \in 1 .. Len(BeaufortMinKt) |->
        [level |-> i - 1,
         minKt |-> Int2Num(BeaufortMinKt[i]),
         description |-> BeaufortDescription[i],
         seaEffect |-> BeaufortSeaEffect[i]]]

\* BEAUFORT_SCALE[x] for a number x: Undefined unless x is an index.
BeaufortAt(x) ==
    IF ~isNaN(x) /\ x.d = 1 /\ x.n >= 0 /\ x.n < Len(BEAUFORT_SCALE)
    THEN BEAUFORT_SCALE[x.n + 1]
    ELSE Undefined

\* 1 knot in km/h, the literal 1.852.
KnotKmH == Rat(1852, 1000)

\* ------------------------------------------------------------------------
\* The conversion (the memoised `result`)
\* ------------------------------------------------------------------------

\* units.find(u => u.value === code)
RECURSIVE FindFrom(_, _, _)
FindFrom(units, code, i) ==
    IF i > Len(units) THEN Undefined
    ELSE IF units[i].value = code THEN units[i]
    ELSE FindFrom(units, code, i + 1)

Find(units, code) == FindFrom(units, code, 1)

\* !u || !u.factor
NoFactor(u) ==
    u = Undefined \/ u.factor = Undefined \/ isNaN(u.factor) \/ u.factor.n = 0

\* The Fahrenheit branch without the subtraction of 32.
ToCelsius_NoOffset(fromUnit, val) ==
    IF fromUnit = "C" THEN val
    ELSE IF fromUnit = "F" THEN Mul(val, Rat(5, 9))
    ELSE IF fromUnit = "K" THEN Sub(val, Rat(27315, 100))
    ELSE Int2Num(0)

\* Intermediate Celsius value of the temperature branch.
ToCelsius(fromUnit, val) ==
    IF fromUnit = "C" THEN val
    ELSE IF fromUnit = "F" THEN Mul(Sub(val, Int2Num(32)), Rat(5, 9))
    ELSE IF fromUnit = "K" THEN Sub(val, Rat(27315, 100))
    ELSE Int2Num(0)

\* The Kelvin branch with the offset 273 in place of 273.15.
FromCelsius_Kelvin273(toUnit, celsius) ==
    IF toUnit = "C" THEN celsius
    ELSE IF toUnit = "F" THEN Add(Mul(celsius, Rat(9, 5)), Int2Num(32))
    ELSE IF toUnit = "K" THEN Add(celsius, Int2Num(273))
    ELSE celsius

FromCelsius(toUnit, celsius) ==
    IF toUnit = "C" THEN celsius
    ELSE IF toUnit = "F" THEN Add(Mul(celsius, Rat(9, 5)), Int2Num(32))
    ELSE IF toUnit = "K" THEN Add(celsius, Rat(27315, 100))
    ELSE celsius

TemperatureResult(fromUnit, toUnit, val) ==
    FromCelsius(toUnit, ToCelsius(fromUnit, val))

\* The clamp without Math.floor.
ClampLevel_NoFloor(val) ==
    MathMax(Int2Num(0), MathMin(Int2Num(12), val))

\* Math.max(0, Math.min(12, Math.floor(val)))
ClampLevel(val) ==
    MathMax(Int2Num(0), MathMin(Int2Num(12), MathFloor(val)))

\* baseValueKmH of the wind branch: Null where the source returns null,
\* TypeError where it reads a field of undefined.
WindBaseKmH(fromUnit, val) ==
    IF fromUnit = "bf"
    THEN LET bft == BeaufortAt(ClampLevel(val))
         IN  IF bft = Undefined THEN TypeError
             ELSE Mul(bft.minKt, KnotKmH)
    ELSE LET from == Find(UNITS("wind"), fromUnit)
         IN  IF NoFactor(from) THEN Null ELSE Mul(val, from.factor)

\* The scan with > in place of >=.
RECURSIVE ScanLevel_Strict(_, _)
ScanLevel_Strict(knots, i) ==
    IF i < 0 THEN 0
    ELSE IF Gt(knots, BEAUFORT_SCALE[i + 1].minKt) THEN i
    ELSE ScanLevel_Strict(knots, i - 1)

\* The descending scan: the first i, from i downwards, with
\* knots >= BEAUFORT_SCALE[i].minKt; 0 when there is none.
RECURSIVE ScanLevel(_, _)
ScanLevel(knots, i) ==
    IF i < 0 THEN 0
    ELSE IF Geq(knots, BEAUFORT_SCALE[i + 1].minKt) THEN i
    ELSE ScanLevel(knots, i - 1)

LevelForKmH(baseValueKmH) ==
    ScanLevel(Div(baseValueKmH, KnotKmH), Len(BEAUFORT_SCALE) - 1)

WindTarget(toUnit, baseValueKmH) ==
    IF toUnit = "bf"
    THEN Int2Num(LevelForKmH(baseValueKmH))
    ELSE LET to == Find(UNITS("wind"), toUnit)
         IN  IF NoFactor(to) THEN Null ELSE Div(baseValueKmH, to.factor)

WindResult(fromUnit, toUnit, val) ==
    LET baseValueKmH == WindBaseKmH(fromUnit, val)
    IN  IF baseValueKmH \in {Null, TypeError} THEN baseValueKmH
        ELSE WindTarget(toUnit, baseValueKmH)

\* The two factors exchanged.
LinearResult_Inverted(category, fromUnit, toUnit, val) ==
    LET units == UNITS(category)
        from  == Find(units, fromUnit)
        to    == Find(units, toUnit)
    IN  IF NoFactor(from) \/ NoFactor(to) THEN Null
        ELSE Div(Mul(val, to.factor), from.factor)

LinearResult(category, fromUnit, toUnit, val) ==
    LET units == UNITS(category)
        from  == Find(units, fromUnit)
        to    == Find(units, toUnit)
    IN  IF NoFactor(from) \/ NoFactor(to) THEN Null
        ELSE Div(Mul(val, from.factor), to.factor)

\* The branch taken once the input is known to be a number.
Dispatch(category, fromUnit, toUnit, val) ==
    IF category = "temperature" THEN TemperatureResult(fromUnit, toUnit, val)
    ELSE IF category = "wind" THEN WindResult(fromUnit, toUnit, val)
    ELSE LinearResult(category, fromUnit, toUnit, val)

\* The conversion without the isNaN check.
ComputeResult_NoCheck(category, fromUnit, toUnit, inputValue) ==
    Dispatch(category, fromUnit, toUnit, parseFloat(inputValue))

\* The value of `result` for the given state of the calculator.
ComputeResult(category, fromUnit, toUnit, inputValue) ==
    LET val == parseFloat(inputValue)
    IN  IF isNaN(val) THEN Null
        ELSE Dispatch(category, fromUnit, toUnit, val)


\* ------------------------------------------------------------------------
\* State
\* ------------------------------------------------------------------------

VARIABLES
    category,    \* the selected category
    fromUnit,    \* the source unit code
    toUnit,      \* the target unit code
    inputValue,  \* the text of the input box
    result,      \* the conversion's value, Pending until it is computed
    prev,        \* wind speed and level of the conversion before this one
    table,       \* conversion_history, in rowid order
    seq,         \* the last AUTOINCREMENT id handed out
    clock,       \* CURRENT_TIMESTAMP, in whole seconds
    changes,     \* rows changed by the last statement run
    lastReq,     \* the request answered last
    prevReq,     \* the request answered before it
    response,    \* the last response
    shown,       \* category, units and input of the last render
    timer,       \* the pending save timer with the values it closes over
    history,     \* the history list held by the component
    showHistory, \* TRUE while the history view is shown
    requests,    \* requests sent and not yet handled by the server
    responses,   \* responses sent and not yet handled by the component
    events,      \* number of user events so far
    restored,    \* the item of the restore click, until the next event
    gone         \* ids removed by the clear-alls acknowledged so far

calcVars == << category, fromUnit, toUnit, inputValue, result, prev >>
storeVars == << table, seq, clock, changes, lastReq, prevReq, response >>
uiVars == << shown, timer, history, showHistory, requests, responses,
             events, restored, gone >>
vars == << category, fromUnit, toUnit, inputValue, result, prev,
           table, seq, clock, changes, lastReq, prevReq, response,
           shown, timer, history, showHistory, requests, responses,
           events, restored, gone >>

Pending == [pending |-> TRUE]
NoPrev == [none |-> TRUE]
NoResponse == [status |-> 0, body |-> << >>]
NotRendered == [rendered |-> FALSE]
NoTimer == [armed |-> FALSE]
NoItem == [item |-> FALSE]

\* ------------------------------------------------------------------------
\* Inputs of the conversion
\* ------------------------------------------------------------------------

UnitCodes(c) == {UNITS(c)[i].value : i \in 1 .. Len(UNITS(c))}

\* Codes tried in a category: its own and some that are not registered in
\* it (a code of another category, as left behind by a category switch).
CandidateCodes(c) == UnitCodes(c) \cup {"xx", "bf", "nmi", "C"}

Alphabet == {"5", ".", "-", "a"}

\* Every text over Alphabet of at most k characters.
Typed(k) == UNION {[1 .. m -> Alphabet] : m \in 0 .. k}

CommonSamples ==
    { << "0" >>, << "1" >>, << "1", "0" >>, << "-", "1" >>,
      << " ", "7" >>, << "+", "2" >>, << "1", "e", "1" >>,
      << "2", "5", "e", "-", "1" >>, << "3", "e" >>, << "e", "3" >>,
      << "1", "2", "a", "b", "c" >> }

Samples(c) ==
    CommonSamples \cup
    CASE c = "wind" ->
           { << "4" >>, << "4", ".", "5" >>, << "1", "1" >>, << "1", "2" >>,
             << "1", "3" >>, << "6", "4" >>, << "1", "0", "0", "0" >>,
             << "1", "0", ".", "9" >>, << "-", "0", ".", "5" >> }
      [] c = "temperature" ->
           { << "3", "2" >>, << "2", "7", "3", ".", "1", "5" >>,
             << "-", "4", "0" >> }
      [] OTHER -> {}

Inputs(c) == Typed(MaxLen) \cup Samples(c)

\* The largest integer TLC represents; numerators and denominators stay
\* at or below it.
MaxInt == 2147483647 * 1

\* Mul(a, b) stays within TLC's integers.
MulFits(a, b) ==
    LET g1 == GCD(Abs(a.n), b.d)
        g2 == GCD(Abs(b.n), a.d)
        x  == Abs(a.n) \div g1
        y  == Abs(b.n) \div g2
        v  == a.d \div g2
        w  == b.d \div g1
    IN  (y = 0 \/ x <= MaxInt \div y) /\ v <= MaxInt \div w

\* The input of a linear conversion is small enough for the exact result
\* to be represented (no restriction on the other conversions, whose
\* numbers are small).
Representable(c, from, to, s) ==
    LET val == parseFloat(s)
        f   == Find(UNITS(c), from)
        t   == Find(UNITS(c), to)
    IN  IF c \in {"temperature", "wind"} THEN TRUE
        ELSE IF isNaN(val) THEN TRUE
        ELSE IF NoFactor(f) \/ NoFactor(t) THEN TRUE
        ELSE IF ~MulFits(val, f.factor) THEN FALSE
        ELSE MulFits(Mul(val, f.factor), Rat(t.factor.d, t.factor.n))

\* ------------------------------------------------------------------------
\* The conversion as a state machine
\* ------------------------------------------------------------------------

StoreInit ==
    /\ table = << >>
    /\ seq = 0
    /\ clock = 0
    /\ changes = 0
    /\ lastReq = "none"
    /\ prevReq = "none"
    /\ response = NoResponse

\* The component before its first render: nothing shown, no timer, an
\* empty history list, the calculator view, nothing sent.
UiIdle ==
    /\ shown = NotRendered
    /\ timer = NoTimer
    /\ history = << >>
    /\ showHistory = FALSE
    /\ requests = {}
    /\ responses = {}
    /\ events = 0
    /\ restored = NoItem
    /\ gone = {}

CalcIdle ==
    /\ category = "length"
    /\ fromUnit = ""
    /\ toUnit = ""
    /\ inputValue = << "1" >>
    /\ result = Pending
    /\ prev = NoPrev

\* Any category, any pair of candidate codes, any input text.
InitConvert ==
    /\ category \in Categories
    /\ fromUnit \in CandidateCodes(category)
    /\ toUnit \in CandidateCodes(category)
    /\ inputValue \in Inputs(category)
    /\ Representable(category, fromUnit, toUnit, inputValue)
    /\ result = Pending
    /\ prev = NoPrev
    /\ StoreInit
    /\ UiIdle

\* The memo is evaluated for the current category, units and input.
Convert ==
    /\ result = Pending
    /\ result' = ComputeResult(category, fromUnit, toUnit, inputValue)
    /\ UNCHANGED << category, fromUnit, toUnit, inputValue, prev >>
    /\ UNCHANGED storeVars
    /\ UNCHANGED uiVars

NextConvert == Convert

SpecConvert == InitConvert /\ [][NextConvert]_vars

\* Conversions to Beaufort, one after another: the source unit and the
\* input change; the wind speed (km/h intermediate) and the level of the
\* previous conversion are remembered.
InitBeaufort ==
    /\ category = "wind"
    /\ fromUnit \in CandidateCodes("wind")
    /\ toUnit = "bf"
    /\ inputValue \in Inputs("wind")
    /\ result = Pending
    /\ prev = NoPrev
    /\ StoreInit
    /\ UiIdle

Reenter(u, s) ==
    /\ result # Pending
    /\ prev = NoPrev
    /\ prev' = [baseValueKmH |->
                    IF result = Null THEN Null
                    ELSE WindBaseKmH(fromUnit, parseFloat(inputValue)),
                level |-> result]
    /\ fromUnit' = u
    /\ inputValue' = s
    /\ result' = Pending
    /\ UNCHANGED << category, toUnit >>
    /\ UNCHANGED storeVars
    /\ UNCHANGED uiVars

NextBeaufort ==
    \/ Convert
    \/ \E u \in CandidateCodes("wind"), s \in Inputs("wind") : Reenter(u, s)

SpecBeaufort == InitBeaufort /\ [][NextBeaufort]_vars


\* ------------------------------------------------------------------------
\* Properties of the conversion
\* ------------------------------------------------------------------------

LinearCategories == {"length", "weight", "speed", "pressure"}

Computed == result # Pending

\* The parsed input of the current state.
Val == parseFloat(inputValue)

IsNumber(x) == x \notin {Pending, Null, TypeError, NaN, Undefined}

\* The registry entries of a category, as a set.
UnitSet(c) == {UNITS(c)[i] : i \in 1 .. Len(UNITS(c))}

\* The registered factor of a code of a category.
FactorOf(c, code) == (CHOOSE u \in UnitSet(c) : u.value = code).factor

\* C1: in a linear category, for registered units A and B and a numeric
\* input v, the result r is v * factor(A) / factor(B): it is a number and
\* r * factor(B) = v * factor(A); km -> m of 1 is 1000 and kt -> kmh of 10
\* is 18.52.
C1_LinearViaBase ==
    (/\ Computed
     /\ category \in LinearCategories
     /\ fromUnit \in UnitCodes(category)
     /\ toUnit \in UnitCodes(category)
     /\ ~isNaN(Val))
    => /\ IsNumber(result)
       /\ Mul(result, FactorOf(category, toUnit))
            = Mul(Val, FactorOf(category, fromUnit))
       /\ (category = "length" /\ fromUnit = "km" /\ toUnit = "m"
             /\ inputValue = << "1" >>) => result = Int2Num(1000)
       /\ (category = "speed" /\ fromUnit = "kt" /\ toUnit = "kmh"
             /\ inputValue = << "1", "0" >>) => result = Rat(1852, 100)

\* A conversion between two different non-base units of a linear category
\* has been computed.
C1_Witness ==
    /\ Computed
    /\ category = "length"
    /\ fromUnit = "nmi"
    /\ toUnit = "ft"
    /\ inputValue = << "5", "5" >>
    /\ result = Rat(55 * 1852 * 10000, 3048)

C2_Celsius(from, v) ==
    CASE from = "C" -> v
      [] from = "F" -> Rat(5 * (v.n - 32 * v.d), 9 * v.d)
      [] from = "K" -> Rat(100 * v.n - 27315 * v.d, 100 * v.d)

C2_Target(to, c) ==
    CASE to = "C" -> c
      [] to = "F" -> Rat(9 * c.n + 160 * c.d, 5 * c.d)
      [] to = "K" -> Rat(100 * c.n + 27315 * c.d, 100 * c.d)

\* C2: in the temperature category, for units in {C, F, K} and a numeric
\* input, the result is the target mapping (C: c, F: c * 9/5 + 32,
\* K: c + 273.15) of the Celsius value (C: v, F: (v - 32) * 5/9,
\* K: v - 273.15); C -> F of 0 is 32, C -> K of 0 is 273.15, F -> C of 32
\* is 0.
C2_TemperatureViaCelsius ==
    (/\ Computed
     /\ category = "temperature"
     /\ fromUnit \in {"C", "F", "K"}
     /\ toUnit \in {"C", "F", "K"}
     /\ ~isNaN(Val))
    => /\ result = C2_Target(toUnit, C2_Celsius(fromUnit, Val))
       /\ (fromUnit = "C" /\ toUnit = "F" /\ inputValue = << "0" >>)
            => result = Int2Num(32)
       /\ (fromUnit = "C" /\ toUnit = "K" /\ inputValue = << "0" >>)
            => result = Rat(27315, 100)
       /\ (fromUnit = "F" /\ toUnit = "C" /\ inputValue = << "3", "2" >>)
            => result = Int2Num(0)

\* Fahrenheit to Kelvin of 32 has been computed: 273.15.
C2_Witness ==
    /\ Computed
    /\ category = "temperature"
    /\ fromUnit = "F"
    /\ toUnit = "K"
    /\ inputValue = << "3", "2" >>
    /\ result = Rat(27315, 100)

\* The level a Beaufort input v stands for: v floored, then clamped to
\* 0 .. 12.
C3_Level(v) ==
    CHOOSE l \in 0 .. 12 :
        \/ l = 0 /\ v.n < v.d
        \/ l = 12 /\ v.n >= 12 * v.d
        \/ l * v.d <= v.n /\ v.n < (l + 1) * v.d

\* C3: in the wind category with source unit bf, every numeric input v
\* stands for the level L = v floored and clamped to 0 .. 12 and never
\* fails: for a target unit T with a factor the result r satisfies
\* r * factor(T) = minKt(L) * 1.852, for the target bf the result is a
\* number; bf -> kmh of 0 is 0 and bf -> kt of 4 is 11.
C3_FromBeaufort ==
    (/\ Computed
     /\ category = "wind"
     /\ fromUnit = "bf"
     /\ toUnit \in UnitCodes("wind")
     /\ ~isNaN(Val))
    => /\ IsNumber(result)
       /\ toUnit # "bf" =>
            Mul(result, FactorOf("wind", toUnit))
              = Rat(BeaufortMinKt[C3_Level(Val) + 1] * 1852, 1000)
       /\ (toUnit = "kmh" /\ inputValue = << "0" >>) => result = Int2Num(0)
       /\ (toUnit = "kt" /\ inputValue = << "4" >>) => result = Int2Num(11)

\* A fractional Beaufort input has been converted: 4.5 bf is 11 kt.
C3_Witness ==
    /\ Computed
    /\ category = "wind"
    /\ fromUnit = "bf"
    /\ toUnit = "kt"
    /\ inputValue = << "4", ".", "5" >>
    /\ result = Int2Num(11)

\* knots is at or above the threshold of level l and below the next one.
C4_IsLevel(l, knots) ==
    \/ l = 0 /\ ~Geq(knots, Int2Num(BeaufortMinKt[1]))
    \/ /\ l \in 0 .. 12
       /\ Geq(knots, Int2Num(BeaufortMinKt[l + 1]))
       /\ l < 12 => ~Geq(knots, Int2Num(BeaufortMinKt[l + 2]))

\* C4: in the wind category with target unit bf, a registered source unit
\* and a numeric input, the result is the highest level whose minKt is at
\* most knots = km/h intermediate / 1.852, and level 0 when there is none;
\* of two such conversions the one with the higher wind speed has no lower
\* level; 0 kt -> 0, 11 kt -> 4, 64 kt -> 12, 1000 kt -> 12.
C4_ToBeaufort ==
    (/\ Computed
     /\ category = "wind"
     /\ toUnit = "bf"
     /\ fromUnit \in UnitCodes("wind")
     /\ ~isNaN(Val))
    => LET kmh == WindBaseKmH(fromUnit, Val)
       IN  /\ IsNumber(result)
           /\ result.d = 1
           /\ C4_IsLevel(result.n, Div(kmh, Rat(1852, 1000)))
           /\ (prev # NoPrev /\ IsNumber(prev.level)) =>
                /\ Geq(kmh, prev.baseValueKmH) => result.n >= prev.level.n
                /\ Geq(prev.baseValueKmH, kmh) => prev.level.n >= result.n
           /\ (fromUnit = "kt" /\ inputValue = << "0" >>)
                => result = Int2Num(0)
           /\ (fromUnit = "kt" /\ inputValue = << "1", "1" >>)
                => result = Int2Num(4)
           /\ (fromUnit = "kt" /\ inputValue = << "6", "4" >>)
                => result = Int2Num(12)
           /\ (fromUnit = "kt" /\ inputValue = << "1", "0", "0", "0" >>)
                => result = Int2Num(12)

\* After a conversion that gave level 4, 11 kt has been converted: level 4
\* again, exactly on the threshold.
C4_Witness ==
    /\ Computed
    /\ category = "wind"
    /\ toUnit = "bf"
    /\ fromUnit = "kt"
    /\ inputValue = << "1", "1" >>
    /\ result = Int2Num(4)
    /\ prev # NoPrev
    /\ prev.level = Int2Num(4)

\* C5 as stated: for every category, every registered unit A (bf
\* included) and every numeric input v, converting from A to A gives v.
C5_Identity ==
    (/\ Computed
     /\ fromUnit \in UnitCodes(category)
     /\ toUnit = fromUnit
     /\ ~isNaN(Val))
    => result = Val

\* C5 amended: for every registered unit A other than bf and every numeric
\* input v, converting from A to A gives v; from bf to bf it gives v
\* floored and clamped to 0 .. 12, which is v exactly when v is one of the
\* integers 0 .. 12.
C5_IdentityAmended ==
    (/\ Computed
     /\ fromUnit \in UnitCodes(category)
     /\ toUnit = fromUnit
     /\ ~isNaN(Val))
    => IF category = "wind" /\ fromUnit = "bf"
       THEN /\ result = Int2Num(C3_Level(Val))
            /\ (result = Val) <=> (Val.d = 1 /\ Val.n \in 0 .. 12)
       ELSE result = Val

\* Kelvin to Kelvin of 273.15 has been computed.
C5_Witness ==
    /\ Computed
    /\ category = "temperature"
    /\ fromUnit = "K"
    /\ toUnit = "K"
    /\ inputValue = << "2", "7", "3", ".", "1", "5" >>
    /\ result = Rat(27315, 100)

\* C6: for every category and every pair of unit codes, registered or not,
\* an input text that is empty or does not parse as a number gives null:
\* no number and no thrown error.
C6_InvalidInputIsNull ==
    (Computed /\ isNaN(Val)) => result = Null

\* A text that is no number has been converted from bf, where the table
\* lookup would throw for NaN.
C6_Witness ==
    /\ Computed
    /\ category = "wind"
    /\ fromUnit = "bf"
    /\ toUnit = "xx"
    /\ inputValue = << "-", "." >>
    /\ result = Null

\* C7 as stated: for every category and every numeric input, a source or
\* target unit code that is not registered in the category gives null.
C7_UnknownUnitIsNull ==
    (/\ Computed
     /\ ~isNaN(Val)
     /\ (fromUnit \notin UnitCodes(category)
           \/ toUnit \notin UnitCodes(category)))
    => result = Null

\* C8 as stated: each linear category has exactly one unit of factor 1,
\* every other unit of it has a positive factor other than 1, and the
\* temperature category holds exactly C, F and K.
C8_OneBaseUnit ==
    /\ category \in LinearCategories =>
         /\ \A u \in UnitSet(category) :
              u.factor # Undefined /\ u.factor.n > 0
         /\ Cardinality({u \in UnitSet(category) : u.factor = Int2Num(1)}) = 1
    /\ category = "temperature" => UnitCodes(category) = {"C", "F", "K"}

\* C8 amended: every unit of a linear category has a positive factor and
\* at least one has factor 1: exactly one in length, speed and weight, and
\* exactly two, hpa and mb, in pressure; the temperature category holds
\* exactly C, F and K.
C8_BaseUnits ==
    /\ category \in LinearCategories =>
         /\ \A u \in UnitSet(category) :
              u.factor # Undefined /\ u.factor.n > 0
         /\ {u.value : u \in {w \in UnitSet(category) : w.factor = Int2Num(1)}}
              = CASE category = "length" -> {"m"}
                  [] category = "speed" -> {"kmh"}
                  [] category = "weight" -> {"kg"}
                  [] category = "pressure" -> {"hpa", "mb"}
    /\ category = "temperature" =>
         /\ UnitCodes(category) = {"C", "F", "K"}
         /\ Len(UNITS(category)) = 3

\* Between the two base units of pressure a value has been converted
\* unchanged.
C8_Witness ==
    /\ Computed
    /\ category = "pressure"
    /\ fromUnit = "hpa"
    /\ toUnit = "mb"
    /\ inputValue = << "5" >>
    /\ result = Int2Num(5)


\* ------------------------------------------------------------------------
\* The history store (server.ts)
\* ------------------------------------------------------------------------

\* LIMIT of the list query.
HistoryLimit == 50

Min(a, b) == IF a <= b THEN a ELSE b

\* Request bodies: two conversions, and one whose numbers are null (what
\* JSON.stringify makes of NaN).
PostBodies ==
    { [category |-> "length", fromUnit |-> "km", toUnit |-> "m",
       inputValue |-> Int2Num(1), outputValue |-> Int2Num(1000)],
      [category |-> "wind", fromUnit |-> "bf", toUnit |-> "kt",
       inputValue |-> Int2Num(4), outputValue |-> Int2Num(11)],
      [category |-> "length", fromUnit |-> "m", toUnit |-> "km",
       inputValue |-> Null, outputValue |-> Null] }

\* The NOT NULL constraints of the inserted columns (the three texts of a
\* modelled body are never null).
NotNullOk(b) ==
    /\ b.inputValue \notin {Null, Undefined}
    /\ b.outputValue \notin {Null, Undefined}

\* The row an INSERT adds: the next id, the five values, the current second.
NewRow(id, b, now) ==
    [id |-> id, category |-> b.category, from_unit |-> b.fromUnit,
     to_unit |-> b.toUnit, input_value |-> b.inputValue,
     output_value |-> b.outputValue, timestamp |-> now]

\* A DELETE that spares the newest row.
ClearTable_KeepNewest(t) == IF t = << >> THEN t ELSE << t[Len(t)] >>

\* DELETE FROM conversion_history
ClearTable(t) == << >>

RowOrders(n) ==
    {f \in [1 .. n -> 1 .. n] : \A i, j \in 1 .. n : i # j => f[i] # f[j]}

TimestampDescending(q) ==
    \A i \in 1 .. Len(q) - 1 : q[i].timestamp >= q[i + 1].timestamp

\* SELECT * ... ORDER BY timestamp DESC LIMIT 50: every answer the query
\* allows.  Rows of equal timestamp come in an order SQL leaves open.
SelectHistory(t) ==
    { SubSeq(q, 1, Min(Len(q), HistoryLimit)) :
        q \in { r \in { [i \in 1 .. Len(t) |-> t[f[i]]] :
                          f \in RowOrders(Len(t)) } :
                TimestampDescending(r) } }

Answer(req, status, body) ==
    /\ response' = [status |-> status, body |-> body]
    /\ lastReq' = req
    /\ prevReq' = lastReq

\* The handler of GET /api/history (the 500 answer of a failing database
\* is left out)
HandleGet ==
    /\ \E body \in SelectHistory(table) : Answer("GET", 200, body)
    /\ UNCHANGED << table, seq, clock, changes >>

\* The handler of POST /api/history
HandlePost(b) ==
    /\ IF NotNullOk(b)
       THEN /\ seq < MaxInserts
            /\ table' = Append(table, NewRow(seq + 1, b, clock))
            /\ seq' = seq + 1
            /\ changes' = 1
            /\ Answer("POST", 201, "success")
       ELSE /\ Answer("POST", 500, "Failed to save history")
            /\ UNCHANGED << table, seq, changes >>
    /\ UNCHANGED clock

\* The handler of DELETE /api/history
HandleDelete ==
    /\ table' = ClearTable(table)
    /\ changes' = Len(table) - Len(table')
    /\ Answer("DELETE", 200, "success")
    /\ UNCHANGED << seq, clock >>

\* GET /api/history, requested of the store directly
GetHistory ==
    /\ HandleGet
    /\ UNCHANGED calcVars
    /\ UNCHANGED uiVars

\* POST /api/history, requested of the store directly
PostHistory(b) ==
    /\ HandlePost(b)
    /\ UNCHANGED calcVars
    /\ UNCHANGED uiVars

\* DELETE /api/history, requested of the store directly
DeleteHistory ==
    /\ HandleDelete
    /\ UNCHANGED calcVars
    /\ UNCHANGED uiVars

\* A second passes.
Tick ==
    /\ clock < MaxClock
    /\ clock' = clock + 1
    /\ UNCHANGED << table, seq, changes, lastReq, prevReq, response >>
    /\ UNCHANGED calcVars
    /\ UNCHANGED uiVars

InitStore == CalcIdle /\ StoreInit /\ UiIdle

NextStore ==
    \/ GetHistory
    \/ \E b \in PostBodies : PostHistory(b)
    \/ DeleteHistory
    \/ Tick

SpecStore == InitStore /\ [][NextStore]_vars

\* ------------------------------------------------------------------------
\* Properties of the history store
\* ------------------------------------------------------------------------

Ids(q) == {q[i].id : i \in 1 .. Len(q)}

\* The k rows of the table inserted last.
Newest(t, k) == {t[i].id : i \in (Len(t) - k + 1) .. Len(t)}

\* C9 as stated: a list request returns at most 50 records, they are the
\* most recently inserted ones still stored, and a record inserted later
\* never comes after a record inserted earlier, also within one second.
C9_NewestFirst ==
    lastReq = "GET" =>
        LET body == response.body
        IN  /\ Len(body) <= HistoryLimit
            /\ Ids(body) = Newest(table, Min(Len(table), HistoryLimit))
            /\ \A i \in 1 .. Len(body) - 1 : body[i].id > body[i + 1].id

\* A step keeps every stored row as it is, or it is the clear-all and
\* empties the table.
C10_StepKeepsRows ==
    \/ /\ Len(table') >= Len(table)
       /\ \A i \in 1 .. Len(table) : table'[i] = table[i]
    \/ /\ lastReq' = "DELETE"
       /\ table' = << >>
       /\ changes' = Len(table)

\* C10: no request changes a stored record or removes a single one;
\* records disappear only through the clear-all request, which removes all
\* of them, and a list request that follows it at once returns the empty
\* list.
C10_RecordsImmutable ==
    /\ [][C10_StepKeepsRows]_vars
    /\ []((lastReq = "GET" /\ prevReq = "DELETE") =>
            (table = << >> /\ response.body = << >>))

\* A clear-all that removed at least two rows has been followed at once by
\* a list request.
C10_Witness ==
    /\ lastReq = "GET"
    /\ prevReq = "DELETE"
    /\ changes >= 2
    /\ response.body = << >>


\* ------------------------------------------------------------------------
\* The component (App.tsx): renders, effects, the save timer, the requests
\* ------------------------------------------------------------------------

\* Texts the number box hands to onChange: the empty text (what the box
\* holds when its content is no number) and decimal literals.
UITexts == { << >>, << "1", "3" >>, << "0", ".", "5" >> }

DigitChar(k) ==
    CASE k = 0 -> "0" [] k = 1 -> "1" [] k = 2 -> "2" [] k = 3 -> "3"
      [] k = 4 -> "4" [] k = 5 -> "5" [] k = 6 -> "6" [] k = 7 -> "7"
      [] k = 8 -> "8" [] k = 9 -> "9"

\* The decimal digits of a natural number.
RECURSIVE NatText(_)
NatText(k) ==
    IF k < 10 THEN << DigitChar(k) >>
    ELSE Append(NatText(k \div 10), DigitChar(k % 10))

\* The decimal digits of r / d, 0 <= r < d, at most k of them.
RECURSIVE FracText(_, _, _)
FracText(r, d, k) ==
    IF r = 0 \/ k = 0 THEN << >>
    ELSE << DigitChar((10 * r) \div d) >> \o FracText((10 * r) % d, d, k - 1)

\* Number.prototype.toString: sign, integer digits and, for a number that
\* is no integer, a point and the digits of the fraction.  The exponent
\* forms (at and above 1e21, below 1e-6) are left out: no number of the
\* model is that large or that small.
NumberToString(x) ==
    IF isNaN(x) THEN << "N", "a", "N" >>
    ELSE LET a     == Abs(x.n)
             whole == NatText(a \div x.d)
             frac  == FracText(a % x.d, x.d, 17)
         IN  (IF x.n < 0 THEN << "-" >> ELSE << >>)
             \o whole
             \o (IF frac = << >> THEN << >> ELSE << "." >> \o frac)

\* The state a render reads.
Snapshot ==
    [category |-> category, fromUnit |-> fromUnit, toUnit |-> toUnit,
     inputValue |-> inputValue]

\* The state has been rendered and no effect has changed it since.
Settled == shown = Snapshot

\* Numbers of the exchanges under way (a request or its response).
Exchanges == {m.k : m \in requests} \cup {m.k : m \in responses}

\* The least number no exchange under way bears.
FreshExchange ==
    CHOOSE k \in 1 .. Cardinality(Exchanges) + 1 :
        /\ k \notin Exchanges
        /\ \A j \in 1 .. k - 1 : j \in Exchanges

\* fetch(url, {method, body}): the request is on its way.
Send(method, body) ==
    requests' = requests \cup
                  {[k |-> FreshExchange, method |-> method, body |-> body]}

NoBody == [none |-> TRUE]

\* fetchHistory, up to its first await
FetchHistory == Send("GET", NoBody)

\* The units the category effect selects.
DefaultFrom(c) == UNITS(c)[1].value

DefaultTo(c) ==
    LET units == UNITS(c)
    IN  IF Len(units) >= 2 /\ units[2].value # ""
        THEN units[2].value
        ELSE units[1].value

\* The clamp effect replaces the input by '12'.
ClampEffectApplies(c, from, s) ==
    /\ c = "wind"
    /\ from = "bf"
    /\ \E val \in {parseFloat(s)} : ~isNaN(val) /\ Gt(val, Int2Num(12))

\* A save effect that arms its timer whatever the result and the input.
SaveCondition_Always(value, s) == TRUE

\* The condition under which the save effect arms its timer.
SaveCondition(value, s) ==
    /\ value # Null
    /\ s # << >>
    /\ \E val \in {parseFloat(s)} : ~isNaN(val)

\* What the timer's callback closes over: saveHistory of the render that
\* armed it, and that render's result.
Closure(value) ==
    [category |-> category, fromUnit |-> fromUnit, toUnit |-> toUnit,
     inputValue |-> inputValue, output |-> value]

\* One render of the component with the effects that follow it, in the
\* order of their declaration: the category effect, the clamp effect, the
\* fetch on mount, the save effect.  An effect runs on mount and when one
\* of its dependencies differs from the render before; it reads the state
\* of this render; the state it sets is rendered next.
Render ==
    /\ shown # Snapshot
    /\ \E value \in {ComputeResult(category, fromUnit, toUnit, inputValue)},
          mounting \in {shown = NotRendered} :
         \E categoryChanged \in
                {IF mounting THEN TRUE ELSE shown.category # category},
            fromChanged \in
                {IF mounting THEN TRUE ELSE shown.fromUnit # fromUnit},
            resultChanged \in {value # result} :
           /\ value # TypeError   \* a memo that throws renders nothing
           /\ result' = value
           /\ shown' = Snapshot
           /\ fromUnit' = IF categoryChanged THEN DefaultFrom(category)
                          ELSE fromUnit
           /\ toUnit' = IF categoryChanged THEN DefaultTo(category)
                        ELSE toUnit
           /\ inputValue' =
                  IF (categoryChanged \/ fromChanged)
                     /\ ClampEffectApplies(category, fromUnit, inputValue)
                  THEN << "1", "2" >>
                  ELSE inputValue
           /\ IF mounting THEN FetchHistory
              ELSE UNCHANGED requests
           /\ timer' = IF ~resultChanged THEN timer
                       ELSE IF SaveCondition(value, inputValue)
                            THEN Closure(value)
                            ELSE NoTimer
    /\ UNCHANGED << category, prev, history, showHistory, responses,
                    events, restored, gone >>
    /\ UNCHANGED storeVars

\* The body saveHistory sends: the values of its closure, the input parsed
\* once more; JSON.stringify writes NaN as null.
SaveBody(t) ==
    LET val == parseFloat(t.inputValue)
    IN  [category |-> t.category, fromUnit |-> t.fromUnit,
         toUnit |-> t.toUnit,
         inputValue |-> IF isNaN(val) THEN Null ELSE val,
         outputValue |-> t.output]

\* The delay of the save timer, 1000 ms, in seconds of the store's clock.
DebounceSeconds == 1

\* The debounce has elapsed: the callback runs saveHistory up to its await.
\* The timer was armed at least DebounceSeconds ago, so the store's clock
\* shows a later second than it did then.
TimerFires ==
    /\ Settled
    /\ timer # NoTimer
    /\ Send("POST", SaveBody(timer))
    /\ timer' = NoTimer
    /\ clock' = clock + DebounceSeconds
    /\ UNCHANGED calcVars
    /\ UNCHANGED << table, seq, changes, lastReq, prevReq, response >>
    /\ UNCHANGED << shown, history, showHistory, responses, events,
                    restored, gone >>

\* Most user events (clicks, selections, edits) of a run.
MaxEvents == 2

\* What every handler of the calculator view shares: the component is
\* mounted and idle and the calculator view is shown.
CalculatorEvent ==
    /\ Settled
    /\ ~showHistory
    /\ events < MaxEvents
    /\ events' = events + 1
    /\ restored' = NoItem
    /\ UNCHANGED << result, prev, shown, timer, history, showHistory,
                    requests, responses, gone >>
    /\ UNCHANGED storeVars

\* A category tab: setCategory(cat.id).  The active tab changes nothing.
SetCategory(c) ==
    /\ c # category
    /\ CalculatorEvent
    /\ category' = c
    /\ UNCHANGED << fromUnit, toUnit, inputValue >>

\* The source select: setFromUnit(e.target.value)
SelectFrom(u) ==
    /\ u \in UnitCodes(category)
    /\ u # fromUnit
    /\ CalculatorEvent
    /\ fromUnit' = u
    /\ UNCHANGED << category, toUnit, inputValue >>

\* The target select: setToUnit(e.target.value)
SelectTo(u) ==
    /\ u \in UnitCodes(category)
    /\ u # toUnit
    /\ CalculatorEvent
    /\ toUnit' = u
    /\ UNCHANGED << category, fromUnit, inputValue >>

\* handleSwap
HandleSwap ==
    /\ fromUnit # toUnit
    /\ CalculatorEvent
    /\ fromUnit' = toUnit
    /\ toUnit' = fromUnit
    /\ UNCHANGED << category, inputValue >>

\* The text onChange stores for the text the box hands it.
ClampOnChange(c, from, val) ==
    IF c = "wind" /\ from = "bf"
       /\ \E num \in {parseFloat(val)} : ~isNaN(num) /\ Gt(num, Int2Num(12))
    THEN << "1", "2" >>
    ELSE val

\* The number box: onChange
EditInput(val) ==
    /\ \E text \in {ClampOnChange(category, fromUnit, val)} :
          /\ text # inputValue
          /\ inputValue' = text
    /\ CalculatorEvent
    /\ UNCHANGED << category, fromUnit, toUnit >>

\* The header button and "Back to Calculator": the other view is shown.
ToggleHistory ==
    /\ Settled
    /\ showHistory' = ~showHistory
    /\ UNCHANGED calcVars
    /\ UNCHANGED storeVars
    /\ UNCHANGED << shown, timer, history, requests, responses,
                    events, restored, gone >>

\* "Restore this conversion" of the i-th item of the list.
Restore(i) ==
    /\ Settled
    /\ showHistory
    /\ i \in 1 .. Len(history)
    /\ category' = history[i].category
    /\ fromUnit' = history[i].from_unit
    /\ toUnit' = history[i].to_unit
    /\ inputValue' = NumberToString(history[i].input_value)
    /\ showHistory' = FALSE
    /\ restored' = history[i]
    /\ events' = events + 1
    /\ UNCHANGED << result, prev, shown, timer, history, requests,
                    responses, gone >>
    /\ UNCHANGED storeVars

\* "Clear All": clearHistory up to its await.
ClearHistory ==
    /\ Settled
    /\ showHistory
    /\ events < MaxEvents
    /\ Send("DELETE", NoBody)
    /\ events' = events + 1
    /\ restored' = NoItem
    /\ UNCHANGED calcVars
    /\ UNCHANGED storeVars
    /\ UNCHANGED << shown, timer, history, showHistory, responses, gone >>

\* response.ok
Ok(status) == status >= 200 /\ status <= 299

\* The server has handled request m and its response is on its way;
\* `removed` notes the ids a clear-all has deleted.
Reply(m, removed) ==
    /\ requests' = requests \ {m}
    /\ responses' = responses \cup
           {[k |-> m.k, method |-> m.method, ok |-> Ok(response'.status),
             data |-> response'.body, removed |-> removed]}
    /\ UNCHANGED calcVars
    /\ UNCHANGED << shown, timer, history, showHistory, events,
                    restored, gone >>

\* The server handles a request of the component.  Requests are handled
\* in any order.
ServeGet(m) ==
    /\ m.method = "GET"
    /\ HandleGet
    /\ Reply(m, {})

ServePost(m) ==
    /\ m.method = "POST"
    /\ HandlePost(m.body)
    /\ Reply(m, {})

ServeDelete(m) ==
    /\ m.method = "DELETE"
    /\ HandleDelete
    /\ Reply(m, {table[i].id : i \in 1 .. Len(table)})

\* fetchHistory after its awaits: setHistory(data) if the response is ok.
FetchHistoryDone(m) ==
    /\ m.method = "GET"
    /\ responses' = responses \ {m}
    /\ history' = IF m.ok THEN m.data ELSE history
    /\ UNCHANGED calcVars
    /\ UNCHANGED storeVars
    /\ UNCHANGED << shown, timer, showHistory, requests, events,
                    restored, gone >>

\* saveHistory after its await: fetchHistory(), whatever the response.
SaveHistoryDone(m) ==
    /\ m.method = "POST"
    /\ responses' = responses \ {m}
    /\ FetchHistory
    /\ UNCHANGED calcVars
    /\ UNCHANGED storeVars
    /\ UNCHANGED << shown, timer, history, showHistory, events, restored,
                    gone >>

\* clearHistory after its await: setHistory([]) if the response is ok.
ClearHistoryDone(m) ==
    /\ m.method = "DELETE"
    /\ responses' = responses \ {m}
    /\ history' = IF m.ok THEN << >> ELSE history
    /\ gone' = IF m.ok THEN gone \cup m.removed ELSE gone
    /\ UNCHANGED calcVars
    /\ UNCHANGED storeVars
    /\ UNCHANGED << shown, timer, showHistory, requests, events,
                    restored >>

InitUI == CalcIdle /\ StoreInit /\ UiIdle

\* No exchange with the server is under way.
Quiet == requests = {} /\ responses = {}

Serve ==
    \E m \in requests : ServeGet(m) \/ ServePost(m) \/ ServeDelete(m)

Receive ==
    \E m \in responses :
        FetchHistoryDone(m) \/ SaveHistoryDone(m) \/ ClearHistoryDone(m)

\* The calculator in use: every handler of the calculator view and the
\* restore button, the user acting while no exchange is under way.
NextCalc ==
    \/ Render
    \/ TimerFires
    \/ Quiet /\ \E c \in Categories : SetCategory(c)
    \/ Quiet /\ \E u \in UnitCodes(category) : SelectFrom(u)
    \/ Quiet /\ \E u \in UnitCodes(category) : SelectTo(u)
    \/ Quiet /\ HandleSwap
    \/ Quiet /\ \E val \in UITexts : EditInput(val)
    \/ Quiet /\ ToggleHistory
    \/ Quiet /\ events < MaxEvents /\ \E i \in 1 .. Len(history) : Restore(i)
    \/ Serve
    \/ Receive

SpecCalc == InitUI /\ [][NextCalc]_vars

\* The calculator in use, a restore click being the user's last act.
NextRestore ==
    \/ Render
    \/ TimerFires
    \/ Quiet /\ restored = NoItem /\ \E c \in Categories : SetCategory(c)
    \/ Quiet /\ restored = NoItem
             /\ \E u \in UnitCodes(category) : SelectFrom(u)
    \/ Quiet /\ restored = NoItem
             /\ \E u \in UnitCodes(category) : SelectTo(u)
    \/ Quiet /\ restored = NoItem /\ HandleSwap
    \/ Quiet /\ restored = NoItem /\ \E val \in UITexts : EditInput(val)
    \/ Quiet /\ restored = NoItem /\ ToggleHistory
    \/ Quiet /\ restored = NoItem /\ \E i \in 1 .. Len(history) : Restore(i)
    \/ Serve
    \/ Receive

SpecRestore == InitUI /\ [][NextRestore]_vars

\* The text typed while the history view is in use.
HistoryTexts == { << "1", "3" >> }

\* The history view in use: an edit of the input, which leads to a save,
\* and the clear-all, the user acting at any time and the exchanges
\* overlapping in every way.
NextHistory ==
    \/ Render
    \/ TimerFires
    \/ \E val \in HistoryTexts : EditInput(val)
    \/ ToggleHistory
    \/ ClearHistory
    \/ Serve
    \/ Receive

SpecHistory == InitUI /\ [][NextHistory]_vars

\* ------------------------------------------------------------------------
\* Properties of the component
\* ------------------------------------------------------------------------

\* The five values are those of a conversion that gave a result: input
\* and output are numbers and the output is what the conversion makes of
\* the category, the two units and the input.
IsConversion(c, from, to, in, out) ==
    /\ in \notin {Null, Undefined, NaN}
    /\ out \notin {Null, Undefined, NaN, TypeError, Pending}
    /\ out = Dispatch(c, from, to, in)

\* The POST requests under way.
Posts == {m \in requests : m.method = "POST"}

\* C11: every record the component posts is a successful conversion.  The
\* pending timer closes over the category, units, input and result of one
\* render, that result being a number; every body posted, and every row
\* the store made of one, holds the values of such a render, so that its
\* output is the conversion of its category, units and input.
C11_PostedIsConversion ==
    /\ timer # NoTimer =>
          /\ timer.output # Null
          /\ timer.output = ComputeResult(timer.category, timer.fromUnit,
                                          timer.toUnit, timer.inputValue)
    /\ \A m \in Posts :
          IsConversion(m.body.category, m.body.fromUnit, m.body.toUnit,
                       m.body.inputValue, m.body.outputValue)
    /\ \A i \in 1 .. Len(table) :
          IsConversion(table[i].category, table[i].from_unit,
                       table[i].to_unit, table[i].input_value,
                       table[i].output_value)

\* A record is posted whose units are no longer the ones selected: the
\* selection changed while the timer was pending, the result stayed equal
\* and the timer fired with the values of the earlier render.
C11_Witness ==
    /\ Settled
    /\ events > 0
    /\ \E m \in Posts :
          /\ m.body.category = category
          /\ m.body.fromUnit # fromUnit
          /\ m.body.outputValue = result

\* The item a restore click restores and the calculator once every effect
\* the click has triggered has run.
AfterRestore == Settled /\ restored # NoItem

\* C12 as stated: once the effects triggered by a restore click have run,
\* the calculator holds the item's category, source unit, target unit and
\* input, whatever category was selected before the click.
C12_RestoreRestores ==
    IF AfterRestore
    THEN /\ category = restored.category
         /\ fromUnit = restored.from_unit
         /\ toUnit = restored.to_unit
         /\ parseFloat(inputValue) = restored.input_value
    ELSE TRUE

\* The Beaufort banner is rendered.
BannerShown ==
    IF shown = NotRendered THEN FALSE
    ELSE shown.category = "wind" /\ result # Null

\* The number after "Beaufort Force".
BannerForce(from, to, s, res) ==
    IF from = "bf"
    THEN MathMax(Int2Num(0),
                 MathMin(Int2Num(12), MathFloor(parseFloat(s))))
    ELSE MathMax(Int2Num(0),
                 MathMin(Int2Num(12),
                         MathFloor(IF to = "bf" THEN res ELSE Int2Num(0))))

\* The index of the entry whose description and sea effect are shown.
BannerIndex(from, to, s, res) ==
    MathMax(Int2Num(0),
            MathMin(Int2Num(12),
                    MathFloor(IF from = "bf" THEN parseFloat(s)
                              ELSE IF to = "bf" THEN res
                              ELSE Int2Num(0))))

\* What the banner displays for the rendered units, input and result.
Banner(from, to, s, res) ==
    LET entry == BeaufortAt(BannerIndex(from, to, s, res))
    IN  [force |-> BannerForce(from, to, s, res),
         description |-> entry.description,
         seaEffect |-> entry.seaEffect]

\* C13 as stated: in the wind category, when a result exists and the
\* banner is shown (and no effect is about to change the display), force
\* number, description and sea effect are those of the Beaufort level of
\* the wind speed being converted, the level of the km/h intermediate,
\* for every pair of units.
C13_BannerShowsLevel ==
    (Settled /\ BannerShown) =>
        LET kmh   == WindBaseKmH(shown.fromUnit, parseFloat(shown.inputValue))
            level == BEAUFORT_SCALE[LevelForKmH(kmh) + 1]
        IN  Banner(shown.fromUnit, shown.toUnit, shown.inputValue, result)
              = [force |-> Int2Num(level.level),
                 description |-> level.description,
                 seaEffect |-> level.seaEffect]

\* Nothing is left to happen without the user: the display is rendered,
\* no timer is pending and no exchange is under way.
Idle == Settled /\ Quiet /\ timer = NoTimer

\* Row r of the table holds the category, units and input displayed.
HoldsDisplayed(r) ==
    /\ r.category = category
    /\ r.from_unit = fromUnit
    /\ r.to_unit = toUnit
    /\ r.input_value = parseFloat(inputValue)

\* C14 as stated, for a display that has outlasted the debounce and every
\* exchange: a successful conversion that stays displayed has been posted
\* with its category, units and input, also when the selection change
\* that led to it left the result equal to the one before.
C14_DisplayedIsPosted ==
    (Idle /\ result \notin {Null, Pending}) =>
        \E i \in 1 .. Len(table) : HoldsDisplayed(table[i])

\* C15 as stated: once a clear-all has been acknowledged, the history
\* list of the component holds no record that clear-all removed.
C15_NoDeletedRecord ==
    \A i \in 1 .. Len(history) : history[i].id \notin gone

=============================================================================
